---------------------------- MODULE Spec2Model ----------------------------
(***************************************************************************)
(* Behavioural model of the picard analyst scripts:                        *)
(*   src/scripts/explain_sam_flags.py                                      *)
(*   src/main/resources/picard/analysis/visualize_cluster_crosscheck_      *)
(*       output.py                                                         *)
(*   src/main/resources/picard/analysis/sample_relatedness_network.py      *)
(* Each script is a single-threaded batch run; every loop of the source    *)
(* is unrolled into one action per iteration, with a program counter.      *)
(***************************************************************************)
EXTENDS Integers, Sequences, FiniteSets, TLC

VARIABLES
    \* explain_sam_flags.py
    fpc,        \* position inside explain_sam_flags
    iFlags,     \* the argument of explain_sam_flags
    fIdx,       \* index of the next lstFlags entry the for loop visits
    printed,    \* the lines printed so far
    \* create_sample_map / create_color_map (both visualization scripts)
    cpc,                  \* position of the colour-assignment run
    map_rows,             \* rows (sample_id, individual) of the sample/individual TSV
    sample_ind_map_dict,  \* dict built by create_sample_map (insertion ordered)
    individuals,          \* create_color_map: individuals in first-seen order
    ci,                   \* index of the running loop
    ind_color_map,        \* color_map of create_color_map
    prev_color_map,       \* color_map returned by the previous run
    color_runs,           \* number of create_color_map runs that returned
    \* visualize_cluster_crosscheck_output.py: extract_cluster_info, add_singletons
    kpc,            \* position inside reformat()
    clusters_df,    \* rows of the cluster metrics table
    table_ids,      \* column entity:participant_id of the participant table
    ki,             \* index of the row the running loop visits
    cluster_dict,   \* cluster id -> list of member samples
    in_clusters,    \* samples of records with CLUSTER_SIZE > 1
    singletons,     \* participants not in in_clusters
    \* visualize_cluster_crosscheck_output.py: find_edges
    matrix_cols,          \* column labels of matrix_df, "FILE" first
    matrix_rows,          \* rows of matrix_df: FILE and the cell of every sample column
    min_edge_weight,      \* --min_edge_weight
    ri,                   \* index of the matrix row of the outer loop
    cj,                   \* index of the column of the inner loop
    no_coverage,          \* the flag of the row being scanned
    edges,                \* list of (row_sample, column_sample, LOD_score)
    no_coverage_samples,  \* list of samples whose row kept the flag
    \* visualize_cluster_crosscheck_output.py: reformat_matrix_output, render_clusters
    matrix_raw,      \* the matrix TSV as read: header labels and rows, names unnormalized
    rk,              \* render_clusters: index of the cluster being drawn
    rs,              \* render_clusters: index of the sample being drawn
    nodes_included,  \* render_clusters: samples appended while drawing subgraphs
    graph_nodes,     \* node declarations handed to graphviz, in order
    graph_edges,     \* edge declarations handed to graphviz
    rendered,        \* g.render() was called
    \* sample_relatedness_network.py
    npc,             \* position inside graph_network
    lod_values,      \* matrix_df after convert_LOD_to_float, in tenths
    nj,              \* create_color_map: index of the matrix column
    colors,          \* create_color_map: colour of every sample column
    alphas,          \* create_color_map: alpha of every sample column
    distances,       \* rescale_matrix: the matrix of distances
    scatter_drawn    \* draw_graph reached plt.scatter / plt.show

flagVars == <<fpc, iFlags, fIdx, printed>>

colorVars == <<cpc, map_rows, sample_ind_map_dict, individuals, ci, ind_color_map,
               prev_color_map, color_runs>>

infoVars == <<kpc, clusters_df, table_ids, ki, cluster_dict, in_clusters, singletons>>

edgeVars == <<matrix_cols, matrix_rows, min_edge_weight, ri, cj, no_coverage, edges,
              no_coverage_samples>>

renderVars == <<matrix_raw, rk, rs, nodes_included, graph_nodes, graph_edges, rendered>>

netVars == <<npc, lod_values, nj, colors, alphas, distances, scatter_drawn>>

vars == <<fpc, iFlags, fIdx, printed,
          cpc, map_rows, sample_ind_map_dict, individuals, ci, ind_color_map,
          prev_color_map, color_runs,
          kpc, clusters_df, table_ids, ki, cluster_dict, in_clusters, singletons,
          matrix_cols, matrix_rows, min_edge_weight, ri, cj, no_coverage, edges,
          no_coverage_samples,
          matrix_raw, rk, rs, nodes_included, graph_nodes, graph_edges, rendered,
          npc, lod_values, nj, colors, alphas, distances, scatter_drawn>>

-----------------------------------------------------------------------------
(* Each script is a run of its own: a specification starts one script and  *)
(* leaves the state of the others idle.                                    *)

\* A Python dict: its keys in insertion order and its key -> value mapping.
EmptyDict == [keys |-> <<>>, val |-> <<>>]

FlagsIdle ==
    /\ fpc = "idle"
    /\ iFlags = 0
    /\ fIdx = 0
    /\ printed = <<>>

ColorIdle ==
    /\ cpc = "idle"
    /\ map_rows = <<>>
    /\ sample_ind_map_dict = EmptyDict
    /\ individuals = <<>>
    /\ ci = 0
    /\ ind_color_map = <<>>
    /\ prev_color_map = <<>>
    /\ color_runs = 0

InfoIdle ==
    /\ kpc = "idle"
    /\ clusters_df = <<>>
    /\ table_ids = <<>>
    /\ ki = 0
    /\ cluster_dict = EmptyDict
    /\ in_clusters = <<>>
    /\ singletons = <<>>

EdgesIdle ==
    /\ matrix_cols = <<>>
    /\ matrix_rows = <<>>
    /\ min_edge_weight = 0
    /\ ri = 0
    /\ cj = 0
    /\ no_coverage = TRUE
    /\ edges = <<>>
    /\ no_coverage_samples = <<>>

RenderIdle ==
    /\ matrix_raw = [cols |-> <<>>, rows |-> <<>>]
    /\ rk = 0
    /\ rs = 0
    /\ nodes_included = <<>>
    /\ graph_nodes = <<>>
    /\ graph_edges = <<>>
    /\ rendered = FALSE

NetIdle ==
    /\ npc = "idle"
    /\ lod_values = <<>>
    /\ nj = 0
    /\ colors = <<>>
    /\ alphas = <<>>
    /\ distances = <<>>
    /\ scatter_drawn = FALSE

-----------------------------------------------------------------------------
(* Colour assignment: create_sample_map and create_color_map.  The two     *)
(* scripts carry the same palette and the same assignment loops.           *)

hex_codes ==
    << "#000000", "#FFFF00", "#1CE6FF", "#FF34FF", "#FF4A46", "#008941", "#006FA6", "#FFDBE5",
       "#0000A6", "#63FFAC", "#8FB0FF", "#5A0007", "#FEFFE6", "#4FC601", "#BA0900", "#6B7900",
       "#00C2A0", "#FFAA92", "#FF90C9", "#B903AA", "#D16100", "#DDEFFF", "#A1C299", "#0AA6D8",
       "#013349", "#00846F", "#372101", "#FFB500", "#C2FFED", "#A079BF", "#CC0744", "#C0B9B2",
       "#C2FF99", "#001E09", "#00489C", "#6F0062", "#0CBD66", "#EEC3FF", "#456D75", "#B77B68",
       "#7A87A1", "#788D66", "#885578", "#FAD09F", "#FF8A9A", "#D157A0", "#BEC459", "#456648",
       "#0086ED", "#886F4C", "#34362D", "#B4A8BD", "#00A6AA", "#452C2C", "#636375", "#A3C8C9",
       "#FF913F", "#938A81", "#575329", "#00FECF", "#B05B6F", "#8CD0FF", "#3B9700", "#04F757",
       "#C8A1A1", "#1E6E00", "#7900D7", "#A77500", "#6367A9", "#A05837", "#6B002C", "#772600",
       "#D790FF", "#9B9700", "#549E79", "#FFF69F", "#201625", "#72418F", "#BC23FF", "#99ADC0",
       "#3A2465", "#922329", "#5B4534", "#FDE8DC", "#404E55", "#0089A3", "#CB7E98", "#A4E804",
       "#324E72", "#6A3A4C", "#83AB58", "#001C1E", "#D1F7CE", "#004B28", "#C8D0F6", "#A3A489",
       "#806C66", "#222800", "#BF5650", "#E83000", "#66796D", "#DA007C", "#FF1A59", "#8ADBB4",
       "#1E0200", "#5B4E51", "#C895C5", "#320033", "#FF6832", "#66E1D3", "#CFCDAC", "#D0AC94",
       "#7ED379", "#012C58", "#7A7BFF", "#D68E01", "#353339", "#78AFA1", "#FEB2C6", "#75797C",
       "#837393", "#943A4D", "#B5F4FF", "#D2DCD5", "#9556BD", "#6A714A", "#001325", "#02525F",
       "#0AA3F7", "#E98176", "#DBD5DD", "#5EBCD1", "#3D4F44", "#7E6405", "#02684E", "#962B75",
       "#8D8546", "#9695C5", "#E773CE", "#D86A78", "#3E89BE", "#CA834E", "#518A87", "#5B113C",
       "#55813B", "#E704C4", "#00005F", "#A97399", "#4B8160", "#59738A", "#FF5DA7", "#F7C9BF",
       "#643127", "#513A01", "#6B94AA", "#51A058", "#A45B02", "#1D1702", "#E20027", "#E7AB63",
       "#4C6001", "#9C6966", "#64547B", "#97979E", "#006A66", "#391406", "#F4D749", "#0045D2",
       "#006C31", "#DDB6D0", "#7C6571", "#9FB2A4", "#00D891", "#15A08A", "#BC65E9", "#FFFFFE",
       "#C6DC99", "#203B3C", "#671190", "#6B3A64", "#F5E1FF", "#FFA0F2", "#CCAA35", "#374527",
       "#8BB400", "#797868", "#C6005A", "#3B000A", "#C86240", "#29607C", "#402334", "#7D5A44",
       "#CCB87C", "#B88183", "#AA5199", "#B5D6C3", "#A38469", "#9F94F0", "#A74571", "#B894A6",
       "#71BB8C", "#00B433", "#789EC9", "#6D80BA", "#953F00", "#5EFF03", "#E4FFFC", "#1BE177",
       "#BCB1E5", "#76912F", "#003109", "#0060CD", "#D20096", "#895563", "#29201D", "#5B3213",
       "#A76F42", "#89412E", "#1A3A2A", "#494B5A", "#A88C85", "#F4ABAA", "#A3F3AB", "#00C6C8",
       "#EA8B66", "#958A9F", "#BDC9D2", "#9FA064", "#BE4700", "#658188", "#83A485", "#453C23",
       "#47675D", "#3A3F00", "#061203", "#DFFB71", "#868E7E", "#98D058", "#6C8F7D", "#D7BFC2",
       "#3C3E6E", "#D83D66", "#2F5D9B", "#6C5E46", "#D25B88", "#5B656C", "#00B57F", "#545C46",
       "#866097", "#365D25", "#252F99", "#00CCFF", "#674E60", "#FC009C", "#92896B" >>

\* Rows of the small sample/individual tables that are enumerated in full.
MaxMapRows == 3

\* Distinct individuals of the largest generated table.
MaxIndividuals == 269

Samples == {"A", "B", "C"}

IndividualIds == {"Ind1", "Ind2", "Ind3"}

Range(f) == {f[x] : x \in DOMAIN f}

\* d[k] = v : a new key goes last, an old key keeps its place.
DictSet(d, k, v) ==
    IF k \in DOMAIN d.val
    THEN [d EXCEPT !.val[k] = v]
    ELSE [keys |-> Append(d.keys, k), val |-> (k :> v) @@ d.val]

\* A plausible slip: the "if individual in individuals: continue" is lost.
SeeIndividualNoDedup(seen, individual) == Append(seen, individual)

\* One iteration of the first loop of create_color_map on the list individuals.
SeeIndividual(seen, individual) ==
    IF individual \in Range(seen) THEN seen ELSE Append(seen, individual)

SmallMapRows ==
    UNION {[1..n -> [sample_id : Samples, individual : IndividualIds]] : n \in 0..MaxMapRows}

\* A table of n distinct individuals, one sample each, then one more sample
\* of the first individual.
BigMapRows(n) ==
    [k \in 1..(n + 1) |->
        [sample_id |-> ToString(k), individual |-> ToString(IF k > n THEN 1 ELSE k)]]

BigCounts == {Len(hex_codes) - 1, Len(hex_codes), Len(hex_codes) + 1, MaxIndividuals}

InitColor ==
    /\ cpc = "sample_map"
    /\ map_rows \in SmallMapRows \cup {BigMapRows(n) : n \in BigCounts}
    /\ sample_ind_map_dict = EmptyDict
    /\ individuals = <<>>
    /\ ci = 1
    /\ ind_color_map = <<>>
    /\ prev_color_map = <<>>
    /\ color_runs = 0
    /\ FlagsIdle
    /\ InfoIdle
    /\ EdgesIdle
    /\ RenderIdle
    /\ NetIdle

\* create_sample_map, one row: sample_map_dict[row.sample_id] = row.individual
SampleMapRow ==
    /\ cpc = "sample_map"
    /\ ci <= Len(map_rows)
    /\ sample_ind_map_dict' =
          DictSet(sample_ind_map_dict, map_rows[ci].sample_id, map_rows[ci].individual)
    /\ ci' = ci + 1
    /\ UNCHANGED <<cpc, map_rows, individuals, ind_color_map, prev_color_map, color_runs>>
    /\ UNCHANGED <<flagVars, infoVars, edgeVars, renderVars, netVars>>

\* create_sample_map: return sample_map_dict
SampleMapReturn ==
    /\ cpc = "sample_map"
    /\ ci > Len(map_rows)
    /\ cpc' = "mapped"
    /\ UNCHANGED <<map_rows, sample_ind_map_dict, individuals, ci, ind_color_map,
                   prev_color_map, color_runs>>
    /\ UNCHANGED <<flagVars, infoVars, edgeVars, renderVars, netVars>>

\* create_color_map is entered: individuals = [].  graph_network calls it
\* only after reformat_matrix_output (npc = "color").
ColorStart ==
    /\ cpc = "mapped"
    /\ npc \in {"idle", "color"}
    /\ cpc' = "scan"
    /\ ci' = 1
    /\ individuals' = <<>>
    /\ UNCHANGED <<map_rows, sample_ind_map_dict, ind_color_map, prev_color_map, color_runs>>
    /\ UNCHANGED <<flagVars, infoVars, edgeVars, renderVars, netVars>>

\* create_color_map, first loop, one item of sample_ind_map_dict.items()
ColorScanItem ==
    /\ cpc = "scan"
    /\ ci <= Len(sample_ind_map_dict.keys)
    /\ individuals' =
          SeeIndividual(individuals, sample_ind_map_dict.val[sample_ind_map_dict.keys[ci]])
    /\ ci' = ci + 1
    /\ UNCHANGED <<cpc, map_rows, sample_ind_map_dict, ind_color_map, prev_color_map,
                   color_runs>>
    /\ UNCHANGED <<flagVars, infoVars, edgeVars, renderVars, netVars>>

\* the first loop is exhausted: color_map = {} and the second loop starts.
\* The result of an earlier run stays in prev_color_map for comparison.
ColorScanEnd ==
    /\ cpc = "scan"
    /\ ci > Len(sample_ind_map_dict.keys)
    /\ cpc' = "assign"
    /\ ci' = 1
    /\ prev_color_map' = ind_color_map
    /\ ind_color_map' = <<>>
    /\ UNCHANGED <<map_rows, sample_ind_map_dict, individuals, color_runs>>
    /\ UNCHANGED <<flagVars, infoVars, edgeVars, renderVars, netVars>>

\* create_color_map, second loop, one i of range(0, len(individuals)):
\* color_map[individuals[i]] = hex_codes[i]; hex_codes[i] past the end of the
\* palette raises IndexError.
ColorAssign ==
    /\ cpc = "assign"
    /\ ci <= Len(individuals)
    /\ \/ /\ ci <= Len(hex_codes)
          /\ ind_color_map' = (individuals[ci] :> hex_codes[ci]) @@ ind_color_map
          /\ ci' = ci + 1
          /\ cpc' = cpc
       \/ /\ ci > Len(hex_codes)
          /\ cpc' = "IndexError"
          /\ UNCHANGED <<ind_color_map, ci>>
    /\ UNCHANGED <<map_rows, sample_ind_map_dict, individuals, prev_color_map, color_runs>>
    /\ UNCHANGED <<flagVars, infoVars, edgeVars, renderVars, netVars>>

\* return(color_map)
ColorReturn ==
    /\ cpc = "assign"
    /\ ci > Len(individuals)
    /\ cpc' = "returned"
    /\ color_runs' = color_runs + 1
    /\ UNCHANGED <<map_rows, sample_ind_map_dict, individuals, ci, ind_color_map,
                   prev_color_map>>
    /\ UNCHANGED <<flagVars, infoVars, edgeVars, renderVars, netVars>>

\* create_color_map is called once more on the same dict.
ColorRunAgain ==
    /\ cpc = "returned"
    /\ color_runs = 1
    /\ cpc' = "scan"
    /\ ci' = 1
    /\ individuals' = <<>>
    /\ UNCHANGED <<map_rows, sample_ind_map_dict, ind_color_map, prev_color_map, color_runs>>
    /\ UNCHANGED <<flagVars, infoVars, edgeVars, renderVars, netVars>>

NextColor ==
    \/ SampleMapRow
    \/ SampleMapReturn
    \/ ColorStart
    \/ ColorScanItem
    \/ ColorScanEnd
    \/ ColorAssign
    \/ ColorReturn
    \/ ColorRunAgain

SpecColor == InitColor /\ [][NextColor]_vars

\* The distinct individuals of the dict.
DictIndividuals == Range(sample_ind_map_dict.val)

\* Position in the dict of the first sample of individual ind.
FirstSeenAt(ind) ==
    CHOOSE i \in 1..Len(sample_ind_map_dict.keys) :
        /\ sample_ind_map_dict.val[sample_ind_map_dict.keys[i]] = ind
        /\ \A j \in 1..(i - 1) :
              sample_ind_map_dict.val[sample_ind_map_dict.keys[j]] # ind

\* How many distinct individuals are met before ind is first met (k from 0).
FirstSeenRank(ind) ==
    Cardinality({sample_ind_map_dict.val[sample_ind_map_dict.keys[j]] :
                    j \in 1..(FirstSeenAt(ind) - 1)})

SampleColor(sample) == ind_color_map[sample_ind_map_dict.val[sample]]

\* Two runs have returned, or a run has raised.
ColorRunEnded == (cpc = "returned" /\ color_runs = 2) \/ cpc = "IndexError"

\* What C2 promises of a finished assignment.
FirstSeenColors ==
    /\ cpc = "returned"
    /\ DOMAIN ind_color_map = DictIndividuals
    /\ \A ind \in DictIndividuals : ind_color_map[ind] = hex_codes[FirstSeenRank(ind) + 1]
    /\ \A s, t \in DOMAIN sample_ind_map_dict.val :
          sample_ind_map_dict.val[s] = sample_ind_map_dict.val[t]
              => SampleColor(s) = SampleColor(t)
    /\ \A a, b \in DictIndividuals : a # b => ind_color_map[a] # ind_color_map[b]
    /\ prev_color_map = ind_color_map

\* C2 as stated: with at most 269 distinct individuals the assignment ends
\* with the k-th distinct individual (first-seen order, k from 0) coloured
\* hex_codes[k], same individual same colour, distinct individuals distinct
\* colours, and a second run giving the identical map.
C2_Original_UpTo269 ==
    (ColorRunEnded /\ Cardinality(DictIndividuals) <= 269) => FirstSeenColors

\* C2 amended: the same, for at most Len(hex_codes) = 255 distinct individuals
\* (the palette of the source has 255 entries); with more the run ends in
\* IndexError.
C2_FirstSeenColorsUpToPalette ==
    /\ Len(hex_codes) = 255
    /\ (ColorRunEnded /\ Cardinality(DictIndividuals) <= Len(hex_codes)) => FirstSeenColors
    /\ (ColorRunEnded /\ Cardinality(DictIndividuals) > Len(hex_codes)) => cpc = "IndexError"

\* C2 witness: both runs finished on a table that uses the whole palette and
\* holds two samples of one individual.
C2_Witness ==
    /\ cpc = "returned"
    /\ color_runs = 2
    /\ Cardinality(DictIndividuals) = Len(hex_codes)
    /\ Len(sample_ind_map_dict.keys) > Cardinality(DictIndividuals)
    /\ prev_color_map = ind_color_map

-----------------------------------------------------------------------------
(* visualize_cluster_crosscheck_output.py: extract_cluster_info and        *)
(* add_singletons.                                                         *)

\* Rows of the cluster metrics table.
MaxClusterRecords == 2

ClusterIds == {1, 2}

ClusterSizes == {1, 2}

ClusterRecords ==
    [CLUSTER : ClusterIds, CLUSTER_SIZE : ClusterSizes,
     LEFT_SAMPLE : Samples, RIGHT_SAMPLE : Samples]

\* "if x not in lst: lst.append(x)"
AppendIfAbsent(lst, x) == IF x \in Range(lst) THEN lst ELSE Append(lst, x)

\* A plausible slip: CLUSTER_SIZE >= 1 in place of CLUSTER_SIZE > 1.
InClustersAfterAnySize(lst, row) ==
    IF row.CLUSTER_SIZE >= 1
    THEN AppendIfAbsent(AppendIfAbsent(lst, row.RIGHT_SAMPLE), row.LEFT_SAMPLE)
    ELSE lst

\* in_clusters after one row: RIGHT_SAMPLE, then LEFT_SAMPLE, of a row with
\* CLUSTER_SIZE > 1.
InClustersAfter(lst, row) ==
    IF row.CLUSTER_SIZE > 1
    THEN AppendIfAbsent(AppendIfAbsent(lst, row.RIGHT_SAMPLE), row.LEFT_SAMPLE)
    ELSE lst

\* cluster_dict after one row: the cluster gets an empty list when it is new,
\* then RIGHT_SAMPLE and LEFT_SAMPLE are appended when absent.
ClusterDictAfter(d, row) ==
    LET d1 == IF row.CLUSTER \in DOMAIN d.val THEN d ELSE DictSet(d, row.CLUSTER, <<>>)
    IN  [d1 EXCEPT !.val[row.CLUSTER] =
            AppendIfAbsent(AppendIfAbsent(@, row.RIGHT_SAMPLE), row.LEFT_SAMPLE)]

\* A plausible slip: the participant is looked up in the wrong list.
SingletonsAfterWrongList(lst, id, clustered) ==
    IF id \notin Range(lst) THEN Append(lst, id) ELSE lst

\* singletons after one row of the participant table.
SingletonsAfter(lst, id, clustered) ==
    IF id \notin Range(clustered) THEN Append(lst, id) ELSE lst

InitExtract ==
    /\ kpc = "extract"
    /\ clusters_df \in UNION {[1..n -> ClusterRecords] : n \in 0..MaxClusterRecords}
    /\ table_ids = <<>>
    /\ ki = 1
    /\ cluster_dict = EmptyDict
    /\ in_clusters = <<>>
    /\ singletons = <<>>
    /\ FlagsIdle
    /\ ColorIdle
    /\ EdgesIdle
    /\ RenderIdle
    /\ NetIdle

\* extract_cluster_info: one row of clusters_df.iterrows()
ExtractRow ==
    /\ kpc = "extract"
    /\ ki <= Len(clusters_df)
    /\ in_clusters' = InClustersAfter(in_clusters, clusters_df[ki])
    /\ cluster_dict' = ClusterDictAfter(cluster_dict, clusters_df[ki])
    /\ ki' = ki + 1
    /\ UNCHANGED <<kpc, clusters_df, table_ids, singletons>>
    /\ UNCHANGED <<flagVars, colorVars, edgeVars, renderVars, netVars>>

\* return cluster_dict, in_clusters; add_singletons starts with singletons = []
ExtractReturn ==
    /\ kpc = "extract"
    /\ ki > Len(clusters_df)
    /\ kpc' = "singletons"
    /\ ki' = 1
    /\ singletons' = <<>>
    /\ UNCHANGED <<clusters_df, table_ids, cluster_dict, in_clusters>>
    /\ UNCHANGED <<flagVars, colorVars, edgeVars, renderVars, netVars>>

NextExtract ==
    \/ ExtractRow
    \/ ExtractReturn

SpecExtract == InitExtract /\ [][NextExtract]_vars

\* add_singletons: one row of table_df.iterrows()
SingletonRow ==
    /\ kpc = "singletons"
    /\ ki <= Len(table_ids)
    /\ singletons' = SingletonsAfter(singletons, table_ids[ki], in_clusters)
    /\ ki' = ki + 1
    /\ UNCHANGED <<kpc, clusters_df, table_ids, cluster_dict, in_clusters>>
    /\ UNCHANGED <<flagVars, colorVars, edgeVars, renderVars, netVars>>

\* add_singletons: return singletons
SingletonsReturn ==
    /\ kpc = "singletons"
    /\ ki > Len(table_ids)
    /\ kpc' = "matrix"
    /\ UNCHANGED <<clusters_df, table_ids, ki, cluster_dict, in_clusters, singletons>>
    /\ UNCHANGED <<flagVars, colorVars, edgeVars, renderVars, netVars>>

\* Index of the first record of cluster id that names sample x.
FirstRecordOf(id, x) ==
    CHOOSE i \in 1..Len(clusters_df) :
        /\ clusters_df[i].CLUSTER = id
        /\ x \in {clusters_df[i].LEFT_SAMPLE, clusters_df[i].RIGHT_SAMPLE}
        /\ \A j \in 1..(i - 1) :
              ~(/\ clusters_df[j].CLUSTER = id
                /\ x \in {clusters_df[j].LEFT_SAMPLE, clusters_df[j].RIGHT_SAMPLE})

RecordSamples(recs) ==
    {clusters_df[i].LEFT_SAMPLE : i \in recs} \cup {clusters_df[i].RIGHT_SAMPLE : i \in recs}

RecordsOfCluster(id) == {i \in 1..Len(clusters_df) : clusters_df[i].CLUSTER = id}

MultiMemberRecords == {i \in 1..Len(clusters_df) : clusters_df[i].CLUSTER_SIZE > 1}

NoRepeats(lst) == \A i, j \in 1..Len(lst) : lst[i] = lst[j] => i = j

-----------------------------------------------------------------------------
(* visualize_cluster_crosscheck_output.py: find_edges.  A cell of the      *)
(* matrix is the text str(LOD_score), a sequence of characters; the edge   *)
(* keeps that text with its commas removed, and float() gives the score,   *)
(* here in tenths.                                                         *)

\* Cells of the matrix whose text is not "0".
MaxNonZeroCells == 2

MatrixSamples == <<"A", "B", "C">>

DigitValue ==
    ("0" :> 0) @@ ("1" :> 1) @@ ("2" :> 2) @@ ("3" :> 3) @@ ("4" :> 4) @@
    ("5" :> 5) @@ ("6" :> 6) @@ ("7" :> 7) @@ ("8" :> 8) @@ ("9" :> 9)

ZeroText == <<"0">>

\* The texts str(LOD_score) of the cells that are not "0": 1, 1.0, -3 and
\* 1,234.
NonZeroTexts ==
    { <<"1">>, <<"1", ".", "0">>, <<"-", "3">>, <<"1", ",", "2", "3", "4">> }

MinEdgeWeights == {-1, 1}

\* LOD_score.replace(',', '')
StripCommas(text) == LET NotComma(c) == c # "," IN SelectSeq(text, NotComma)

\* The decimal number written by a run of digits.
RECURSIVE DigitsValue(_)
DigitsValue(digits) ==
    IF digits = <<>> THEN 0
    ELSE 10 * DigitsValue(SubSeq(digits, 1, Len(digits) - 1))
         + DigitValue[digits[Len(digits)]]

\* float(text), in tenths, of [-]digits[.digit]
ToFloat(text) ==
    LET neg == text # <<>> /\ text[1] = "-"
        body == IF neg THEN Tail(text) ELSE text
        dot == IF \E i \in 1..Len(body) : body[i] = "."
               THEN CHOOSE i \in 1..Len(body) : body[i] = "."
               ELSE Len(body) + 1
        whole == DigitsValue(SubSeq(body, 1, dot - 1))
        tenth == IF dot < Len(body) THEN DigitValue[body[dot + 1]] ELSE 0
        magnitude == 10 * whole + tenth
    IN  IF neg THEN 0 - magnitude ELSE magnitude

\* A plausible slip: coverage only for a positive score.
HasCoverageIfPositive(LOD_score) == ToFloat(LOD_score) > 0

\* "if float(LOD_score) != 0"
HasCoverage(LOD_score) == ToFloat(LOD_score) # 0

\* A plausible slip: >= in place of >.
AboveThresholdOrEqual(LOD_score, weight) == ToFloat(LOD_score) >= 10 * weight

\* "if float(LOD_score) > min_edge_weight"
AboveThreshold(LOD_score, weight) == ToFloat(LOD_score) > 10 * weight

\* A plausible slip: the reversed triple is never found.
MirrorEmittedNever(lst, row_sample, column_sample, LOD_score) == FALSE

\* "if (column_sample, row_sample, LOD_score) in edges"
MirrorEmitted(lst, row_sample, column_sample, LOD_score) ==
    <<column_sample, row_sample, LOD_score>> \in Range(lst)

\* A plausible slip: the flag is set once before the loop and carried from
\* row to row.
FlagCarriedOver(flag) == flag

\* "no_coverage = True" at the top of every row.
FlagAtRowStart(flag) == TRUE

\* "if row_sample not in singletons: continue"
RowSkipped(row_sample, lst) == row_sample \notin Range(lst)

\* Matrices over MatrixSamples, square, with at most MaxNonZeroCells cells
\* that are not "0".
CellPlaces == {<<r, c>> : r \in 1..Len(MatrixSamples), c \in 1..Len(MatrixSamples)}

MatrixWith(texts) ==
    [r \in 1..Len(MatrixSamples) |->
        [FILE |-> MatrixSamples[r],
         cells |-> [c \in 1..Len(MatrixSamples) |->
                      IF <<r, c>> \in DOMAIN texts THEN texts[<<r, c>>] ELSE ZeroText]]]

Matrices ==
    {MatrixWith(texts) :
        texts \in UNION {[places -> NonZeroTexts] :
                            places \in {p \in SUBSET CellPlaces :
                                           Cardinality(p) <= MaxNonZeroCells}}}

\* A list of participants in table order, one per member of the set.
InTableOrder(set) == LET In(x) == x \in set IN SelectSeq(MatrixSamples, In)

InitEdges ==
    /\ kpc = "edges_row"
    /\ singletons \in {InTableOrder(set) : set \in SUBSET Range(MatrixSamples)}
    /\ matrix_cols = <<"FILE">> \o MatrixSamples
    /\ matrix_rows \in Matrices
    /\ min_edge_weight \in MinEdgeWeights
    /\ ri = 1
    /\ cj = 1
    /\ no_coverage = TRUE
    /\ edges = <<>>
    /\ no_coverage_samples = <<>>
    /\ clusters_df = <<>>
    /\ table_ids = <<>>
    /\ ki = 0
    /\ cluster_dict = EmptyDict
    /\ in_clusters = <<>>
    /\ FlagsIdle
    /\ ColorIdle
    /\ RenderIdle
    /\ NetIdle

\* str(LOD_score) of the cell of row ri under the column at position j > 1.
CellText(i, j) == matrix_rows[i].cells[j - 1]

\* find_edges, top of the outer loop: no_coverage = True, then the row of a
\* sample that is no singleton is skipped.
EdgesRow ==
    /\ kpc = "edges_row"
    /\ ri <= Len(matrix_rows)
    /\ no_coverage' = FlagAtRowStart(no_coverage)
    /\ \/ /\ RowSkipped(matrix_rows[ri].FILE, singletons)
          /\ ri' = ri + 1
          /\ UNCHANGED <<kpc, cj>>
       \/ /\ ~RowSkipped(matrix_rows[ri].FILE, singletons)
          /\ kpc' = "edges_cell"
          /\ cj' = 1
          /\ UNCHANGED ri
    /\ UNCHANGED <<matrix_cols, matrix_rows, min_edge_weight, edges, no_coverage_samples>>
    /\ UNCHANGED <<clusters_df, table_ids, ki, cluster_dict, in_clusters, singletons>>
    /\ UNCHANGED <<flagVars, colorVars, renderVars, netVars>>

\* find_edges, one item of row_dict.items()
EdgesCell ==
    /\ kpc = "edges_cell"
    /\ cj <= Len(matrix_cols)
    /\ LET row_sample == matrix_rows[ri].FILE
           column_sample == matrix_cols[cj]
           LOD_score == StripCommas(CellText(ri, cj))
       IN  \/ /\ column_sample = "FILE"
              /\ UNCHANGED <<no_coverage, edges>>
           \/ /\ column_sample # "FILE"
              /\ no_coverage' = IF HasCoverage(LOD_score) THEN FALSE ELSE no_coverage
              /\ \/ /\ ~AboveThreshold(LOD_score, min_edge_weight)
                    /\ UNCHANGED edges
                 \/ /\ AboveThreshold(LOD_score, min_edge_weight)
                    /\ MirrorEmitted(edges, row_sample, column_sample, LOD_score)
                    /\ UNCHANGED edges
                 \/ /\ AboveThreshold(LOD_score, min_edge_weight)
                    /\ ~MirrorEmitted(edges, row_sample, column_sample, LOD_score)
                    /\ column_sample = row_sample
                    /\ UNCHANGED edges
                 \/ /\ AboveThreshold(LOD_score, min_edge_weight)
                    /\ ~MirrorEmitted(edges, row_sample, column_sample, LOD_score)
                    /\ column_sample # row_sample
                    /\ edges' = Append(edges, <<row_sample, column_sample, LOD_score>>)
    /\ cj' = cj + 1
    /\ UNCHANGED <<kpc, matrix_cols, matrix_rows, min_edge_weight, ri, no_coverage_samples>>
    /\ UNCHANGED <<clusters_df, table_ids, ki, cluster_dict, in_clusters, singletons>>
    /\ UNCHANGED <<flagVars, colorVars, renderVars, netVars>>

\* find_edges, after the inner loop: "if no_coverage: ...append(row_sample)"
EdgesRowEnd ==
    /\ kpc = "edges_cell"
    /\ cj > Len(matrix_cols)
    /\ \/ /\ no_coverage
          /\ no_coverage_samples' = Append(no_coverage_samples, matrix_rows[ri].FILE)
       \/ /\ ~no_coverage
          /\ UNCHANGED no_coverage_samples
    /\ ri' = ri + 1
    /\ kpc' = "edges_row"
    /\ UNCHANGED <<matrix_cols, matrix_rows, min_edge_weight, cj, no_coverage, edges>>
    /\ UNCHANGED <<clusters_df, table_ids, ki, cluster_dict, in_clusters, singletons>>
    /\ UNCHANGED <<flagVars, colorVars, renderVars, netVars>>

\* return edges, no_coverage_samples
EdgesReturn ==
    /\ kpc = "edges_row"
    /\ ri > Len(matrix_rows)
    /\ kpc' = "edges_returned"
    /\ UNCHANGED <<matrix_cols, matrix_rows, min_edge_weight, ri, cj, no_coverage, edges,
                   no_coverage_samples>>
    /\ UNCHANGED <<clusters_df, table_ids, ki, cluster_dict, in_clusters, singletons>>
    /\ UNCHANGED <<flagVars, colorVars, renderVars, netVars>>

NextEdges ==
    \/ EdgesRow
    \/ EdgesCell
    \/ EdgesRowEnd
    \/ EdgesReturn

SpecEdges == InitEdges /\ [][NextEdges]_vars

\* The samples find_edges was given as singletons, and those with a row.
SingletonSet == Range(singletons)

RowsOf(sample) == {i \in 1..Len(matrix_rows) : matrix_rows[i].FILE = sample}

SampleColumns == {j \in 1..Len(matrix_cols) : matrix_cols[j] # "FILE"}

EdgeSet == Range(edges)

\* (a, b, score) is a candidate: a is a singleton with a row whose cell under
\* column b reads score (commas removed) and is above min_edge_weight.
Candidate(a, b, score) ==
    /\ a \in SingletonSet
    /\ \E i \in RowsOf(a) : \E j \in SampleColumns :
          /\ matrix_cols[j] = b
          /\ StripCommas(CellText(i, j)) = score
          /\ ToFloat(score) > 10 * min_edge_weight

Scores == {StripCommas(t) : t \in NonZeroTexts \cup {ZeroText}}

\* Every cell of row i parses to 0.
AllZeroRow(i) == \A j \in SampleColumns : ToFloat(StripCommas(CellText(i, j))) = 0

C4_Original_EveryZeroRow ==
    kpc = "edges_returned" =>
        \A i \in 1..Len(matrix_rows) :
            AllZeroRow(i) => matrix_rows[i].FILE \in Range(no_coverage_samples)

\* C4 amended: every singleton with a row whose cells all parse to 0 is in the
\* no-coverage list that find_edges returns, and a sample that is not a
\* singleton is never in it.
C4_ZeroRowOfSingletonFlagged ==
    kpc = "edges_returned" =>
        /\ \A i \in 1..Len(matrix_rows) :
              (AllZeroRow(i) /\ matrix_rows[i].FILE \in SingletonSet)
                  => matrix_rows[i].FILE \in Range(no_coverage_samples)
        /\ Range(no_coverage_samples) \subseteq SingletonSet

\* C4 witness: a singleton with an all-zero row is flagged while another
\* sample with an all-zero row, not a singleton, is not.
C4_Witness ==
    /\ kpc = "edges_returned"
    /\ \E i, k \in 1..Len(matrix_rows) :
          /\ AllZeroRow(i) /\ AllZeroRow(k)
          /\ matrix_rows[i].FILE \in SingletonSet
          /\ matrix_rows[i].FILE \in Range(no_coverage_samples)
          /\ matrix_rows[k].FILE \notin SingletonSet
          /\ matrix_rows[k].FILE \notin Range(no_coverage_samples)

\* C9 as stated: a singleton's row has coverage exactly when some cell has a
\* score > 0, and the singleton is flagged exactly when no cell has.
C9_Original_CoverageIfPositive ==
    kpc = "edges_returned" =>
        \A i \in 1..Len(matrix_rows) :
            matrix_rows[i].FILE \in SingletonSet =>
                ((matrix_rows[i].FILE \in Range(no_coverage_samples))
                    <=> ~\E j \in SampleColumns : ToFloat(StripCommas(CellText(i, j))) > 0)

\* C9 amended: a singleton's row has coverage exactly when some cell has a
\* score different from 0 (a negative score counts), and the singleton is
\* flagged exactly when every cell is 0, whether or not the row gave edges.
C9_CoverageIfNonZero ==
    kpc = "edges_returned" =>
        \A i \in 1..Len(matrix_rows) :
            matrix_rows[i].FILE \in SingletonSet =>
                ((matrix_rows[i].FILE \in Range(no_coverage_samples))
                    <=> ~\E j \in SampleColumns : ToFloat(StripCommas(CellText(i, j))) # 0)

\* C9 witness: with min_edge_weight = -1 a flagged singleton also gave an
\* edge, and a singleton whose only non-zero score is negative is not flagged.
C9_Witness ==
    /\ kpc = "edges_returned"
    /\ min_edge_weight = -1
    /\ \E i, k \in 1..Len(matrix_rows) :
          /\ matrix_rows[i].FILE \in Range(no_coverage_samples)
          /\ \E e \in EdgeSet : e[1] = matrix_rows[i].FILE
          /\ matrix_rows[k].FILE \in SingletonSet
          /\ matrix_rows[k].FILE \notin Range(no_coverage_samples)
          /\ \A j \in SampleColumns : ToFloat(StripCommas(CellText(k, j))) <= 0

\* C10: when find_edges has returned, every edge (s, o, score) has s a
\* singleton with a row, o a column other than s, score the cell of that row
\* under o and strictly above min_edge_weight; and for every singleton row s
\* and column o # s with a score strictly above min_edge_weight the list holds
\* (s, o, score) or (o, s, score).  No edge starts at a non-singleton.
C10_EdgeEmissionRule ==
    kpc = "edges_returned" =>
        /\ \A e \in EdgeSet :
              /\ e[1] \in SingletonSet
              /\ RowsOf(e[1]) # {}
              /\ e[2] \in {matrix_cols[j] : j \in SampleColumns}
              /\ e[2] # e[1]
              /\ ToFloat(e[3]) > 10 * min_edge_weight
              /\ Candidate(e[1], e[2], e[3])
        /\ \A s, o \in Range(MatrixSamples) : \A score \in Scores :
              (s # o /\ Candidate(s, o, score))
                  => (<<s, o, score>> \in EdgeSet \/ <<o, s, score>> \in EdgeSet)
        /\ \A i \in 1..Len(matrix_rows) :
              matrix_rows[i].FILE \notin SingletonSet
                  => ~\E e \in EdgeSet : e[1] = matrix_rows[i].FILE

\* C10 witness: an edge was emitted, a score equal to min_edge_weight gave
\* none, a self cell above the threshold gave no loop, and a non-singleton
\* row with a score above the threshold gave none.
C10_Witness ==
    /\ kpc = "edges_returned"
    /\ min_edge_weight = 1
    /\ SingletonSet = {"A", "B"}
    /\ <<"A", "B", <<"1", "2", "3", "4">>>> \in EdgeSet
    /\ matrix_rows[3].cells[1] = <<"1", ",", "2", "3", "4">>
    /\ Len(edges) = 1

-----------------------------------------------------------------------------
\* visualize_cluster_crosscheck_output.py: reformat, the whole pipeline, then
\* sample_relatedness_network.py: graph_network on the same map and matrix.

\* A name as the files write it, cut at its colons: "file:A" is <<"file", "A">>.
\* file_string.rsplit(':', 1)[-1] keeps what follows the last colon.
extract_sample_id(file_string) == file_string[Len(file_string)]

\* A plausible slip: the test of the singleton loop always skips.
AlreadyIncludedAlways(sample, included) == TRUE

\* "if sample in nodes_included: continue"
AlreadyIncluded(sample, included) == sample \in Range(included)

\* A node declaration: c.node / g.node with its colour, in the subgraph it
\* was made in (<<"G">> is the graph itself).
Node(subgraph, name, color) == [subgraph |-> subgraph, name |-> name, color |-> color]

\* The inputs of the runs.
MaxTableRows == 2

VizClusterRecords ==
    { [CLUSTER |-> 1, CLUSTER_SIZE |-> 2, LEFT_SAMPLE |-> "A", RIGHT_SAMPLE |-> "B"],
      [CLUSTER |-> 2, CLUSTER_SIZE |-> 1, LEFT_SAMPLE |-> "C", RIGHT_SAMPLE |-> "C"],
      [CLUSTER |-> 2, CLUSTER_SIZE |-> 2, LEFT_SAMPLE |-> "B", RIGHT_SAMPLE |-> "C"] }

VizClusterTables == UNION {[1..n -> VizClusterRecords] : n \in 0..MaxClusterRecords}

VizTables == UNION {[1..n -> Samples] : n \in 0..MaxTableRows}

VizMaps ==
    LET full == << [sample_id |-> "A", individual |-> "Ind1"],
                   [sample_id |-> "B", individual |-> "Ind1"],
                   [sample_id |-> "C", individual |-> "Ind2"] >>
        Without(s) == LET Keep(r) == r.sample_id # s IN SelectSeq(full, Keep)
    IN  {full} \cup {Without(s) : s \in Samples}

\* The matrix file: header labels and row labels are file names ending in
\* the sample name.
RawMatrix(cells) ==
    [cols |-> <<<<"FILE">>>> \o [c \in 1..Len(MatrixSamples) |-> <<"file", MatrixSamples[c]>>],
     rows |-> [r \in 1..Len(MatrixSamples) |->
                  [FILE |-> <<"file", MatrixSamples[r]>>, cells |-> cells[r].cells]]]

VizMatrices ==
    { RawMatrix(MatrixWith(<<>>)),
      RawMatrix(MatrixWith((<<1, 1>> :> <<"1", ",", "2", "3", "4">>)
                           @@ (<<1, 2>> :> <<"1", ",", "2", "3", "4">>)
                           @@ (<<2, 1>> :> <<"1", ",", "2", "3", "4">>))) }

InitViz ==
    /\ kpc = "extract"
    /\ clusters_df \in VizClusterTables
    /\ table_ids \in VizTables
    /\ matrix_raw \in VizMatrices
    /\ map_rows \in VizMaps
    /\ min_edge_weight = 1
    /\ ki = 1
    /\ cluster_dict = EmptyDict
    /\ in_clusters = <<>>
    /\ singletons = <<>>
    /\ matrix_cols = <<>>
    /\ matrix_rows = <<>>
    /\ ri = 0
    /\ cj = 0
    /\ no_coverage = TRUE
    /\ edges = <<>>
    /\ no_coverage_samples = <<>>
    /\ cpc = "idle"
    /\ sample_ind_map_dict = EmptyDict
    /\ individuals = <<>>
    /\ ci = 0
    /\ ind_color_map = <<>>
    /\ prev_color_map = <<>>
    /\ color_runs = 0
    /\ rk = 0
    /\ rs = 0
    /\ nodes_included = <<>>
    /\ graph_nodes = <<>>
    /\ graph_edges = <<>>
    /\ rendered = FALSE
    /\ FlagsIdle
    /\ NetIdle

\* reformat_matrix_output (cluster script): FILE and every column label are
\* replaced by extract_sample_id of them; the cells stay as read.
ReformatMatrix ==
    /\ kpc = "matrix"
    /\ matrix_cols' = [j \in 1..Len(matrix_raw.cols) |-> extract_sample_id(matrix_raw.cols[j])]
    /\ matrix_rows' = [i \in 1..Len(matrix_raw.rows) |->
                          [FILE |-> extract_sample_id(matrix_raw.rows[i].FILE),
                           cells |-> matrix_raw.rows[i].cells]]
    /\ kpc' = "edges_row"
    /\ ri' = 1
    /\ cj' = 1
    /\ edges' = <<>>
    /\ no_coverage_samples' = <<>>
    /\ UNCHANGED <<min_edge_weight, no_coverage>>
    /\ UNCHANGED <<clusters_df, table_ids, ki, cluster_dict, in_clusters, singletons>>
    /\ UNCHANGED <<flagVars, colorVars, renderVars, netVars>>

\* reformat: create_sample_map is called once find_edges has returned.
ClusterSampleMap ==
    /\ kpc = "edges_returned"
    /\ npc = "idle"
    /\ kpc' = "color"
    /\ cpc' = "sample_map"
    /\ ci' = 1
    /\ sample_ind_map_dict' = EmptyDict
    /\ UNCHANGED <<map_rows, individuals, ind_color_map, prev_color_map, color_runs>>
    /\ UNCHANGED <<clusters_df, table_ids, ki, cluster_dict, in_clusters, singletons>>
    /\ UNCHANGED <<flagVars, edgeVars, renderVars, netVars>>

\* render_clusters up to the legend: one node per individual, in the order
\* of ind_color_map.
RenderLegend ==
    /\ kpc = "color"
    /\ cpc = "returned"
    /\ nodes_included' = <<>>
    /\ graph_nodes' = [k \in 1..Len(individuals) |->
                          Node(<<"cluster", "Legend">>, individuals[k],
                               ind_color_map[individuals[k]])]
    /\ kpc' = "render_clusters"
    /\ rk' = 1
    /\ rs' = 1
    /\ UNCHANGED <<matrix_raw, graph_edges, rendered>>
    /\ UNCHANGED <<clusters_df, table_ids, ki, cluster_dict, in_clusters, singletons>>
    /\ UNCHANGED <<flagVars, colorVars, edgeVars, netVars>>

\* One sample of one cluster: appended to nodes_included, looked up in the
\* map (KeyError when absent), declared in the subgraph of the cluster.
RenderClusterNode ==
    /\ kpc = "render_clusters"
    /\ rk <= Len(cluster_dict.keys)
    /\ rs <= Len(cluster_dict.val[cluster_dict.keys[rk]])
    /\ LET cluster == cluster_dict.keys[rk]
           sample == cluster_dict.val[cluster][rs]
       IN  /\ nodes_included' = Append(nodes_included, sample)
           /\ \/ /\ sample \notin DOMAIN sample_ind_map_dict.val
                 /\ kpc' = "KeyError"
                 /\ UNCHANGED <<graph_nodes, rs>>
              \/ /\ sample \in DOMAIN sample_ind_map_dict.val
                 /\ graph_nodes' = Append(graph_nodes,
                        Node(<<"cluster", ToString(cluster)>>, sample,
                             ind_color_map[sample_ind_map_dict.val[sample]]))
                 /\ rs' = rs + 1
                 /\ UNCHANGED kpc
    /\ UNCHANGED <<matrix_raw, rk, graph_edges, rendered>>
    /\ UNCHANGED <<clusters_df, table_ids, ki, cluster_dict, in_clusters, singletons>>
    /\ UNCHANGED <<flagVars, colorVars, edgeVars, netVars>>

\* The samples of one cluster are done: next item of cluster_dict.items().
RenderClusterEnd ==
    /\ kpc = "render_clusters"
    /\ rk <= Len(cluster_dict.keys)
    /\ rs > Len(cluster_dict.val[cluster_dict.keys[rk]])
    /\ rk' = rk + 1
    /\ rs' = 1
    /\ UNCHANGED <<matrix_raw, nodes_included, graph_nodes, graph_edges, rendered>>
    /\ UNCHANGED <<infoVars, flagVars, colorVars, edgeVars, netVars>>

\* All clusters are drawn: the no-coverage subgraph is opened.
RenderNoCoverageStart ==
    /\ kpc = "render_clusters"
    /\ rk > Len(cluster_dict.keys)
    /\ kpc' = "render_no_coverage"
    /\ rs' = 1
    /\ UNCHANGED <<matrix_raw, rk, nodes_included, graph_nodes, graph_edges, rendered>>
    /\ UNCHANGED <<clusters_df, table_ids, ki, cluster_dict, in_clusters, singletons>>
    /\ UNCHANGED <<flagVars, colorVars, edgeVars, netVars>>

\* One sample of no_coverage_samples.
RenderNoCoverageNode ==
    /\ kpc = "render_no_coverage"
    /\ rs <= Len(no_coverage_samples)
    /\ LET sample == no_coverage_samples[rs]
       IN  /\ nodes_included' = Append(nodes_included, sample)
           /\ \/ /\ sample \notin DOMAIN sample_ind_map_dict.val
                 /\ kpc' = "KeyError"
                 /\ UNCHANGED <<graph_nodes, rs>>
              \/ /\ sample \in DOMAIN sample_ind_map_dict.val
                 /\ graph_nodes' = Append(graph_nodes,
                        Node(<<"cluster", "no_coverage">>, sample,
                             ind_color_map[sample_ind_map_dict.val[sample]]))
                 /\ rs' = rs + 1
                 /\ UNCHANGED kpc
    /\ UNCHANGED <<matrix_raw, rk, graph_edges, rendered>>
    /\ UNCHANGED <<clusters_df, table_ids, ki, cluster_dict, in_clusters, singletons>>
    /\ UNCHANGED <<flagVars, colorVars, edgeVars, netVars>>

\* The no-coverage subgraph is closed: the singleton loop starts.
RenderSingletonsStart ==
    /\ kpc = "render_no_coverage"
    /\ rs > Len(no_coverage_samples)
    /\ kpc' = "render_singletons"
    /\ rs' = 1
    /\ UNCHANGED <<matrix_raw, rk, nodes_included, graph_nodes, graph_edges, rendered>>
    /\ UNCHANGED <<clusters_df, table_ids, ki, cluster_dict, in_clusters, singletons>>
    /\ UNCHANGED <<flagVars, colorVars, edgeVars, netVars>>

\* One singleton: skipped when already in nodes_included, else looked up and
\* declared in the graph itself.
RenderSingleton ==
    /\ kpc = "render_singletons"
    /\ rs <= Len(singletons)
    /\ LET sample == singletons[rs]
       IN  \/ /\ AlreadyIncluded(sample, nodes_included)
              /\ rs' = rs + 1
              /\ UNCHANGED <<kpc, graph_nodes>>
           \/ /\ ~AlreadyIncluded(sample, nodes_included)
              /\ sample \notin DOMAIN sample_ind_map_dict.val
              /\ kpc' = "KeyError"
              /\ UNCHANGED <<graph_nodes, rs>>
           \/ /\ ~AlreadyIncluded(sample, nodes_included)
              /\ sample \in DOMAIN sample_ind_map_dict.val
              /\ graph_nodes' = Append(graph_nodes,
                     Node(<<"G">>, sample, ind_color_map[sample_ind_map_dict.val[sample]]))
              /\ rs' = rs + 1
              /\ UNCHANGED kpc
    /\ UNCHANGED <<matrix_raw, rk, nodes_included, graph_edges, rendered>>
    /\ UNCHANGED <<clusters_df, table_ids, ki, cluster_dict, in_clusters, singletons>>
    /\ UNCHANGED <<flagVars, colorVars, edgeVars, netVars>>

\* "for edge in edges: g.edge(...)" and g.render(...).
RenderEdges ==
    /\ kpc = "render_singletons"
    /\ rs > Len(singletons)
    /\ graph_edges' = [k \in 1..Len(edges) |->
                          [tail |-> edges[k][1], head |-> edges[k][2], label |-> edges[k][3]]]
    /\ rendered' = TRUE
    /\ kpc' = "rendered"
    /\ UNCHANGED <<matrix_raw, rk, rs, nodes_included, graph_nodes>>
    /\ UNCHANGED <<clusters_df, table_ids, ki, cluster_dict, in_clusters, singletons>>
    /\ UNCHANGED <<flagVars, colorVars, edgeVars, netVars>>

\* ---- sample_relatedness_network.py ----

\* float64 is modelled as a binary float with the exponent range of binary64
\* and a significand of PrecisionBits + 1 bits, results cut towards zero:
\* finite is m * 2^(e - PrecisionBits) with 2^PrecisionBits <= m < 2^(PrecisionBits + 1).
PrecisionBits == 12

RECURSIVE Pow2(_)
Pow2(k) == IF k = 0 THEN 1 ELSE 2 * Pow2(k - 1)

Finite(m, e) == [kind |-> "finite", m |-> m, e |-> e]

FloatZero == [kind |-> "zero", m |-> 0, e |-> 0]

FloatInf == [kind |-> "inf", m |-> 0, e |-> 0]

FloatOne == Finite(Pow2(PrecisionBits), 0)

\* The literal 1.2
Sentinel == Finite((12 * Pow2(PrecisionBits)) \div 10, 0)

\* a < b for floats that are not negative.
FloatLess(a, b) ==
    CASE a.kind = "zero" -> b.kind # "zero"
      [] a.kind = "inf" -> FALSE
      [] OTHER -> \/ b.kind = "inf"
                  \/ /\ b.kind = "finite"
                     /\ \/ a.e < b.e
                        \/ a.e = b.e /\ a.m < b.m

\* np.exp(x) for x given in twentieths: 2^(x * log2(e)), the integer part of
\* the exponent apart from the fraction f, 2^f = e^(f ln 2) by its series;
\* above the largest binary64 exponent the result is inf (numpy warns and
\* goes on).
NpExp(x20) ==
    LET t6 == x20 * 72135
        e  == t6 \div 1000000
        f4 == (t6 % 1000000) \div 100
        y  == (f4 * 6931) \div 10000
        h5 == 10000 + y \div 5
        h4 == 10000 + (y * h5) \div 40000
        h3 == 10000 + (y * h4) \div 30000
        h2 == 10000 + (y * h3) \div 20000
        r  == 10000 + (y * h2) \div 10000
        m0 == (r * Pow2(PrecisionBits)) \div 10000
        m  == IF m0 >= Pow2(PrecisionBits + 1) THEN Pow2(PrecisionBits + 1) - 1 ELSE m0
    IN  IF e > 1023 THEN FloatInf ELSE Finite(m, e)

\* 1 + x for x > 0
FloatAddOne(x) ==
    IF x.kind = "inf" THEN FloatInf
    ELSE IF x.e >= 0
         THEN LET one == IF x.e > PrecisionBits THEN 0 ELSE Pow2(PrecisionBits) \div Pow2(x.e)
                  s == x.m + one
              IN  IF s >= Pow2(PrecisionBits + 1) THEN Finite(s \div 2, x.e + 1)
                                                 ELSE Finite(s, x.e)
         ELSE LET part == IF -x.e > PrecisionBits + 1 THEN 0 ELSE x.m \div Pow2(-x.e)
              IN  Finite(Pow2(PrecisionBits) + part, 0)

\* 1 / x for x >= 1
FloatRecip(x) ==
    IF x.kind = "inf" THEN FloatZero
    ELSE LET q == Pow2(2 * PrecisionBits + 1) \div x.m
         IN  IF q >= Pow2(PrecisionBits + 1) THEN Finite(Pow2(PrecisionBits), -x.e)
                                             ELSE Finite(q, -x.e - 1)

\* A plausible slip: >= in place of >.
LOD_to_distanceInclusive(LOD) ==
    IF LOD >= -100 THEN FloatRecip(FloatAddOne(NpExp(LOD - 40))) ELSE Sentinel

\* LOD_to_distance, LOD in tenths: -.5 * (-LOD + 4) is (LOD - 40) twentieths.
LOD_to_distance(LOD) ==
    IF LOD > -100 THEN FloatRecip(FloatAddOne(NpExp(LOD - 40))) ELSE Sentinel

\* convert_LOD_to_float: float(str(LOD).replace(',', '')), in tenths.
convert_LOD_to_float(LOD) == ToFloat(StripCommas(LOD))

Abs(n) == IF n < 0 THEN -n ELSE n

RECURSIVE SumAbs(_, _, _)
SumAbs(rows, j, i) ==
    IF i = 0 THEN 0 ELSE Abs(rows[i].cells[j - 1]) + SumAbs(rows, j, i - 1)

\* "if mag_column.mean() >= 5": .5, else .99 (in hundredths).
AlphaOf(rows, j) == IF SumAbs(rows, j, Len(rows)) >= 50 * Len(rows) THEN 50 ELSE 99

\* graph_network starts once the cluster script has ended (rendered, or
\* stopped by an error): read the map, create_sample_map.
NetStart ==
    /\ npc = "idle"
    /\ \/ kpc \in {"rendered", "KeyError"}
       \/ kpc = "color" /\ cpc = "IndexError"
    /\ npc' = "sample_map"
    /\ cpc' = "sample_map"
    /\ ci' = 1
    /\ sample_ind_map_dict' = EmptyDict
    /\ individuals' = <<>>
    /\ ind_color_map' = <<>>
    /\ UNCHANGED <<map_rows, prev_color_map, color_runs>>
    /\ UNCHANGED <<lod_values, nj, colors, alphas, distances, scatter_drawn>>
    /\ UNCHANGED <<flagVars, infoVars, edgeVars, renderVars>>

\* reformat_matrix_output (network script): names are replaced as in the
\* cluster script and every cell of a column other than FILE goes through
\* convert_LOD_to_float.
NetReformat ==
    /\ npc = "sample_map"
    /\ cpc = "mapped"
    /\ lod_values' =
          [cols |-> [j \in 1..Len(matrix_raw.cols) |-> extract_sample_id(matrix_raw.cols[j])],
           rows |-> [i \in 1..Len(matrix_raw.rows) |->
                        [FILE |-> extract_sample_id(matrix_raw.rows[i].FILE),
                         cells |-> [c \in 1..Len(matrix_raw.rows[i].cells) |->
                                       convert_LOD_to_float(matrix_raw.rows[i].cells[c])]]]]
    /\ npc' = "color"
    /\ nj' = 1
    /\ colors' = <<>>
    /\ alphas' = <<>>
    /\ UNCHANGED <<distances, scatter_drawn>>
    /\ UNCHANGED <<flagVars, colorVars, infoVars, edgeVars, renderVars>>

\* create_color_map (network script), one column of matrix_df after the
\* palette is assigned: alpha appended, then the sample looked up in the map.
NetColumn ==
    /\ npc = "color"
    /\ cpc = "returned"
    /\ nj <= Len(lod_values.cols)
    /\ LET column == lod_values.cols[nj]
       IN  \/ /\ column = "FILE"
              /\ nj' = nj + 1
              /\ UNCHANGED <<npc, colors, alphas>>
           \/ /\ column # "FILE"
              /\ alphas' = Append(alphas, AlphaOf(lod_values.rows, nj))
              /\ \/ /\ column \notin DOMAIN sample_ind_map_dict.val
                    /\ npc' = "KeyError"
                    /\ UNCHANGED <<colors, nj>>
                 \/ /\ column \in DOMAIN sample_ind_map_dict.val
                    /\ colors' = Append(colors,
                                        ind_color_map[sample_ind_map_dict.val[column]])
                    /\ nj' = nj + 1
                    /\ UNCHANGED npc
    /\ UNCHANGED <<lod_values, distances, scatter_drawn>>
    /\ UNCHANGED <<flagVars, colorVars, infoVars, edgeVars, renderVars>>

\* create_color_map returns; rescale_matrix: every column other than FILE
\* goes through LOD_to_distance.
NetRescale ==
    /\ npc = "color"
    /\ cpc = "returned"
    /\ nj > Len(lod_values.cols)
    /\ distances' = [i \in 1..Len(lod_values.rows) |->
                        [c \in 1..Len(lod_values.rows[i].cells) |->
                            LOD_to_distance(lod_values.rows[i].cells[c])]]
    /\ npc' = "draw"
    /\ UNCHANGED <<lod_values, nj, colors, alphas, scatter_drawn>>
    /\ UNCHANGED <<flagVars, colorVars, infoVars, edgeVars, renderVars>>

\* draw_graph: plt.scatter, plt.show
NetDraw ==
    /\ npc = "draw"
    /\ scatter_drawn' = TRUE
    /\ npc' = "drawn"
    /\ UNCHANGED <<lod_values, nj, colors, alphas, distances>>
    /\ UNCHANGED <<flagVars, colorVars, infoVars, edgeVars, renderVars>>

NextViz ==
    \/ ExtractRow
    \/ ExtractReturn
    \/ SingletonRow
    \/ SingletonsReturn
    \/ ReformatMatrix
    \/ EdgesRow
    \/ EdgesCell
    \/ EdgesRowEnd
    \/ EdgesReturn
    \/ ClusterSampleMap
    \/ SampleMapRow
    \/ SampleMapReturn
    \/ ColorStart
    \/ ColorScanItem
    \/ ColorScanEnd
    \/ ColorAssign
    \/ ColorReturn
    \/ RenderLegend
    \/ RenderClusterNode
    \/ RenderClusterEnd
    \/ RenderNoCoverageStart
    \/ RenderNoCoverageNode
    \/ RenderSingletonsStart
    \/ RenderSingleton
    \/ RenderEdges
    \/ NetStart
    \/ NetReformat
    \/ NetColumn
    \/ NetRescale
    \/ NetDraw

SpecViz == InitViz /\ [][NextViz]_vars

\* A run of the network script alone, on a matrix of one column and two
\* rows whose LOD scores are drawn from DistLODs (tenths).
MaxSmallLOD == 12

MaxLargeLOD == 1425

DistLODs ==
    {10 * k : k \in (0 - 12)..MaxSmallLOD} \cup {0 - 101, 0 - 99}
    \cup {10 * k : k \in 1422..MaxLargeLOD} \cup {14235, 14236}

DigitChar == <<"0", "1", "2", "3", "4", "5", "6", "7", "8", "9">>

RECURSIVE Digits(_)
Digits(n) == IF n < 10 THEN <<DigitChar[n + 1]>>
             ELSE Append(Digits(n \div 10), DigitChar[(n % 10) + 1])

\* The text of a score of n tenths as the matrix file writes it: -9.9, 1423.5
LODText(n) ==
    (IF n < 0 THEN <<"-">> ELSE <<>>) \o Digits(Abs(n) \div 10)
    \o <<".", DigitChar[(Abs(n) % 10) + 1]>>

InitDist ==
    /\ npc = "sample_map"
    /\ cpc = "sample_map"
    /\ ci = 1
    /\ map_rows = <<[sample_id |-> "A", individual |-> "Ind1"]>>
    /\ \E a, b \in DistLODs :
          matrix_raw =
             [cols |-> << <<"FILE">>, <<"file", "A">> >>,
              rows |-> << [FILE |-> <<"file", "A">>, cells |-> <<LODText(a)>>],
                          [FILE |-> <<"file", "B">>, cells |-> <<LODText(b)>>] >>]
    /\ sample_ind_map_dict = EmptyDict
    /\ individuals = <<>>
    /\ ind_color_map = <<>>
    /\ prev_color_map = <<>>
    /\ color_runs = 0
    /\ rk = 0
    /\ rs = 0
    /\ nodes_included = <<>>
    /\ graph_nodes = <<>>
    /\ graph_edges = <<>>
    /\ rendered = FALSE
    /\ lod_values = <<>>
    /\ nj = 0
    /\ colors = <<>>
    /\ alphas = <<>>
    /\ distances = <<>>
    /\ scatter_drawn = FALSE
    /\ FlagsIdle
    /\ InfoIdle
    /\ EdgesIdle

NextDist ==
    \/ SampleMapRow
    \/ SampleMapReturn
    \/ NetReformat
    \/ ColorStart
    \/ ColorScanItem
    \/ ColorScanEnd
    \/ ColorAssign
    \/ ColorReturn
    \/ NetColumn
    \/ NetRescale
    \/ NetDraw

SpecDist == InitDist /\ [][NextDist]_vars

\* ---- claims on the pipeline ----

\* The samples named by the cluster records, and by the map.
ClusterMembers == RecordSamples(1..Len(clusters_df))

MapSamples == {map_rows[i].sample_id : i \in 1..Len(map_rows)}

\* The samples the matrix file has a column for.
MatrixSampleNames ==
    {extract_sample_id(matrix_raw.cols[j]) : j \in 1..Len(matrix_raw.cols)} \ {"FILE"}

MissingFromMap == MatrixSampleNames \ MapSamples

\* C6: once add_singletons has returned, the singleton list is the
\* participant table with the members of records of CLUSTER_SIZE > 1 taken
\* out, order and repeats kept: a participant is in it iff it is in no such
\* record; a participant in no record at all is in it; no member of a
\* multi-member record is in it.
C6_SingletonsExact ==
    kpc \notin {"idle", "extract", "singletons"} =>
        LET clustered == RecordSamples(MultiMemberRecords)
            Keep(id) == id \notin clustered
        IN  /\ singletons = SelectSeq(table_ids, Keep)
            /\ \A id \in Range(table_ids) :
                  /\ id \in Range(singletons) <=> id \notin clustered
                  /\ id \notin ClusterMembers => id \in Range(singletons)
            /\ Range(singletons) \cap clustered = {}

\* A and B are in cluster 1 of size 2, C is in no record: of the table C, A
\* only C is a singleton.
C6_Witness ==
    /\ kpc = "matrix"
    /\ clusters_df = <<[CLUSTER |-> 1, CLUSTER_SIZE |-> 2,
                        LEFT_SAMPLE |-> "A", RIGHT_SAMPLE |-> "B"]>>
    /\ table_ids = <<"C", "A">>
    /\ singletons = <<"C">>

Rescaled == npc \in {"draw", "drawn"}

CellLOD(i) == lod_values.rows[i].cells[1]

CellDistance(i) == distances[i][1]

SampleNodes == {k \in 1..Len(graph_nodes) : graph_nodes[k].subgraph # <<"cluster", "Legend">>}

Declarations(sample) == {k \in SampleNodes : graph_nodes[k].name = sample}

\* C11: in a rendered graph every sample that is a member of a cluster
\* record, a no-coverage sample or a singleton is declared as a node, and all
\* its declarations are in one place: never in two different subgraphs (two
\* cluster subgraphs, or a cluster subgraph and the no-coverage subgraph),
\* never in a subgraph and as a standalone node.
C11_EachSampleDeclaredInOnePlace ==
    kpc = "rendered" =>
        \A sample \in ClusterMembers \cup Range(no_coverage_samples) \cup Range(singletons) :
            /\ Declarations(sample) # {}
            /\ \A k1, k2 \in Declarations(sample) :
                  graph_nodes[k1].subgraph = graph_nodes[k2].subgraph

-----------------------------------------------------------------------------
(* explain_sam_flags.py                                                    *)

\* Largest flag value on the command line (13 bits: one bit above the table).
MaxFlags == 4200

lstFlags ==
    << [name |-> "read paired",                               mask |-> 1],
       [name |-> "read mapped in proper pair",                mask |-> 2],
       [name |-> "read unmapped",                             mask |-> 4],
       [name |-> "mate unmapped",                             mask |-> 8],
       [name |-> "read reverse strand",                       mask |-> 16],
       [name |-> "mate reverse strand",                       mask |-> 32],
       [name |-> "first in pair",                             mask |-> 64],
       [name |-> "second in pair",                            mask |-> 128],
       [name |-> "not primary alignment",                     mask |-> 256],
       [name |-> "read fails platform/vendor quality checks", mask |-> 512],
       [name |-> "read is PCR or optical duplicate",          mask |-> 1024],
       [name |-> "supplementary alignment",                   mask |-> 2048] >>

\* Python's & on non-negative integers, bit by bit.
RECURSIVE BitAnd(_, _)
BitAnd(a, b) ==
    IF a = 0 \/ b = 0 THEN 0
    ELSE (IF a % 2 = 1 /\ b % 2 = 1 THEN 1 ELSE 0)
         + 2 * BitAnd(a \div 2, b \div 2)

\* A plausible slip: comparing the flag word with the mask instead of AND-ing.
FlagSetByCompare(flags, iMask) == flags >= iMask

\* The truth value of "if iFlags & iMask".
FlagSet(flags, iMask) == BitAnd(flags, iMask) # 0

HeaderLine(flags) == [kind |-> "header", text |-> <<flags, ":">>]

FlagLine(strFlagName) == [kind |-> "flag", text |-> <<"\t", strFlagName>>]

\* main: int(strArg) of one command-line argument, about to be explained.
InitFlags ==
    /\ fpc = "header"
    /\ iFlags \in 0..MaxFlags
    /\ fIdx = 1
    /\ printed = <<>>
    /\ ColorIdle
    /\ InfoIdle
    /\ EdgesIdle
    /\ RenderIdle
    /\ NetIdle

\* print iFlags, ":"
ExplainHeader ==
    /\ fpc = "header"
    /\ printed' = Append(printed, HeaderLine(iFlags))
    /\ fpc' = "loop"
    /\ UNCHANGED <<iFlags, fIdx>>
    /\ UNCHANGED <<colorVars, infoVars, edgeVars, renderVars, netVars>>

\* one iteration of "for strFlagName, iMask in lstFlags"
ExplainEntry ==
    /\ fpc = "loop"
    /\ fIdx <= Len(lstFlags)
    /\ \/ /\ FlagSet(iFlags, lstFlags[fIdx].mask)
          /\ printed' = Append(printed, FlagLine(lstFlags[fIdx].name))
       \/ /\ ~FlagSet(iFlags, lstFlags[fIdx].mask)
          /\ printed' = printed
    /\ fIdx' = fIdx + 1
    /\ UNCHANGED <<fpc, iFlags>>
    /\ UNCHANGED <<colorVars, infoVars, edgeVars, renderVars, netVars>>

\* the for loop is exhausted: explain_sam_flags returns
ExplainReturn ==
    /\ fpc = "loop"
    /\ fIdx > Len(lstFlags)
    /\ fpc' = "done"
    /\ UNCHANGED <<iFlags, fIdx, printed>>
    /\ UNCHANGED <<colorVars, infoVars, edgeVars, renderVars, netVars>>

NextFlags ==
    \/ ExplainHeader
    \/ ExplainEntry
    \/ ExplainReturn

SpecFlags == InitFlags /\ [][NextFlags]_vars

\* The names printed after the header line, in print order.
PrintedNames == [i \in 1..(Len(printed) - 1) |-> printed[i + 1].text[2]]

MaskHits(e) == BitAnd(e.mask, iFlags) # 0

TableNames(tbl) == [i \in 1..Len(tbl) |-> tbl[i].name]

\* C1: when explain_sam_flags(flags) has returned, the printed lines are the
\* header line followed by exactly the names of the lstFlags entries whose
\* mask has a nonzero bitwise AND with flags, each once and in table order;
\* flags = 0 prints no name, flags = 0x1|0x4 prints read paired and read
\* unmapped, flags = 0xFFF prints all twelve names.
C1_ExplainPrintsMatchingNames ==
    fpc = "done" =>
        /\ Len(printed) >= 1
        /\ printed[1] = HeaderLine(iFlags)
        /\ \A i \in 2..Len(printed) : printed[i].kind = "flag"
        /\ PrintedNames = TableNames(SelectSeq(lstFlags, MaskHits))
        /\ Len(lstFlags) = 12
        /\ (iFlags = 0 => PrintedNames = <<>>)
        /\ (iFlags = 5 => PrintedNames = <<"read paired", "read unmapped">>)
        /\ (iFlags = 4095 => PrintedNames = TableNames(lstFlags))

\* C1 witness: a finished run on 0xFFF, all twelve names printed.
C1_Witness ==
    /\ fpc = "done"
    /\ iFlags = 4095
    /\ Len(printed) = 13

=============================================================================
